---- MODULE Spec2Model ----
(***************************************************************************)
(* Model of collector.py: the pending table (SQLite), the ingestion cycle  *)
(* (collect / upsert_pending), and the digest cycle (select, format,       *)
(* primary / thread / fallback transports, CSV export, commit of the       *)
(* notified flag).  Every invocation of the script is a process; Spec runs *)
(* the invocations one after the other (the scheduler's serialized design),*)
(* SpecConc lets two invocations overlap on the same database file, and    *)
(* SpecUpsert calls upsert_pending directly with arbitrary arguments.      *)
(***************************************************************************)
EXTENDS Integers, Sequences, FiniteSets, TLC

VARIABLES pending, now, wlock, pc, loc, ret, ck

vars == <<pending, now, wlock, pc, loc, ret, ck>>

\* ------------------------------------------------------------------ bounds
MaxTicks == 2       \* clock ticks (one tick = 60 seconds)
MaxLen == 6         \* characters of a text given to chunk_text
MaxLimit == 3       \* largest limit given to chunk_text
MaxDummy == 1       \* rows inject_dummy may add to the table in a run

Procs == {1, 2}
NoProc == 0
NoId == 0           \* a candidate without 'id' / a falsy created_at argument

\* ------------------------------------------------- configuration (.env)
\* The settings are fixed while an invocation runs.  Each is drawn at the
\* statement that first reads it; SLACK_BOT_TOKEN and SLACK_WEBHOOK_URL,
\* which are read again later, are kept in the invocation's locals, and the
\* script exits while loading unless at least one of the two is set.
DIGEST_LOOKBACK_MIN == 1
MAX_ITEMS_IN_DIGEST == 2
MAX_SLACK_CHARS == 8
BOOTSTRAP_DAYS == 1
TEST_LOOKBACK_MIN == 60
MinCounts == {1, 2}          \* values of DIGEST_MIN_COUNT

Modes == {"collect", "digest", "test_digest", "bootstrap", "langs"}

\* ----------------------------------------------------------- the store
Min(a, b) == IF a <= b THEN a ELSE b
Max(a, b) == IF a >= b THEN a ELSE b

Key(pfx, n) == [pfx |-> pfx, n |-> n]

\* the existence check keyed on the key alone
RowExists_KeyOnly(tbl, source, key) ==
  \E i \in 1..Len(tbl) : tbl[i].key = key

\* SELECT 1 FROM pending WHERE source=? AND key=?
RowExists(tbl, source, key) ==
  \E i \in 1..Len(tbl) : tbl[i].source = source /\ tbl[i].key = key

\* INSERT INTO pending(...) VALUES(..., created_at or int(time.time()), 0)
InsertRow(tbl, source, key, title, created_at, t) ==
  Append(tbl, [id |-> Len(tbl) + 1, source |-> source, key |-> key,
               title |-> title,
               created_at |-> IF created_at = NoId THEN t ELSE created_at,
               notified |-> 0])

upsert_pending(tbl, source, key, title, created_at, t) ==
  IF RowExists(tbl, source, key)
    THEN [ret |-> FALSE, tbl |-> tbl]
    ELSE [ret |-> TRUE, tbl |-> InsertRow(tbl, source, key, title, created_at, t)]

\* the WHERE clause without the notified filter
Eligible_All(tbl, since) ==
  { i \in 1..Len(tbl) : tbl[i].created_at >= since }

\* WHERE created_at>=? AND notified=0
Eligible(tbl, since) ==
  { i \in 1..Len(tbl) : tbl[i].created_at >= since /\ tbl[i].notified = 0 }

\* ORDER BY created_at DESC: the index idx_pending_time is walked backwards,
\* rows of equal created_at come out in descending rowid.
First(tbl, S) ==
  CHOOSE i \in S : \A j \in S :
    \/ tbl[i].created_at > tbl[j].created_at
    \/ tbl[i].created_at = tbl[j].created_at /\ i >= j

RECURSIVE OrderLimit(_, _, _)
OrderLimit(tbl, S, limit) ==
  IF S = {} \/ limit <= 0 THEN <<>>
  ELSE LET i == First(tbl, S)
       IN <<tbl[i]>> \o OrderLimit(tbl, S \ {i}, limit - 1)

SelectPending(tbl, since, limit) == OrderLimit(tbl, Eligible(tbl, since), limit)

\* the lookback taken as seconds
Since_Seconds(t, lookback) == t - lookback

Since(t, lookback) == t - (lookback * 60)

Ids(rs) == { rs[i].id : i \in 1..Len(rs) }

\* UPDATE pending SET notified=1 WHERE id=?  for every id of ids, committed
MarkNotified(tbl, ids) ==
  [i \in 1..Len(tbl) |->
     IF tbl[i].id \in ids THEN [tbl[i] EXCEPT !.notified = 1] ELSE tbl[i]]

\* ------------------------------------------------------------ the texts
Ch(c, id) == [c |-> c, id |-> id]
NL == Ch("\n", 0)
SP == Ch(" ", 0)
IsSpace(ch) == ch.c \in {"\n", " "}

HdrLen == 2
PtrLen == 2

RECURSIVE Rep(_, _)
Rep(ch, n) == IF n <= 0 THEN <<>> ELSE <<ch>> \o Rep(ch, n - 1)

\* header, Sources and Top repos lines, blank line
header(count) == Rep(Ch("h", 0), HdrLen) \o (IF count # 1 THEN <<Ch("s", 0)>> ELSE <<>>)

\* "* title\n  url (time)"
bullet(r) == <<Ch("t", r.id), NL, SP, SP, Ch("u", r.id)>>

RECURSIVE JoinBullets(_)
JoinBullets(rs) ==
  IF rs = <<>> THEN <<>>
  ELSE IF Len(rs) = 1 THEN bullet(rs[1])
  ELSE bullet(rs[1]) \o <<NL>> \o JoinBullets(Tail(rs))

\* returns (text, thread_details); an absent thread_details is the empty text
make_digest_text(rs) ==
  LET bullets == JoinBullets(rs)
      body == header(Len(rs)) \o bullets
  IN IF Len(body) <= MAX_SLACK_CHARS
       THEN [text |-> body, details |-> <<>>]
       ELSE [text |-> header(Len(rs)) \o Rep(Ch("p", 0), PtrLen), details |-> bullets]

\* the search includes index limit itself
rfind_Inclusive(s, limit) ==
  LET P == { j \in 1..Min(limit + 1, Len(s)) : s[j] = NL }
  IN IF P = {} THEN -1 ELSE (CHOOSE j \in P : \A k \in P : k <= j) - 1

\* s.rfind("\n", 0, limit), 0-based, -1 when absent
rfind(s, limit) ==
  LET P == { j \in 1..Min(limit, Len(s)) : s[j] = NL }
  IN IF P = {} THEN -1 ELSE (CHOOSE j \in P : \A k \in P : k <= j) - 1

\* the first character is dropped whatever it is
lstrip_Any(s) == IF s # <<>> THEN Tail(s) ELSE s

RECURSIVE lstrip(_)
lstrip(s) == IF s # <<>> /\ IsSpace(Head(s)) THEN lstrip(Tail(s)) ELSE s

\* a newline at index 0 is cut like any other
cut_at_NoGuard(s, limit) ==
  LET c0 == rfind(s, limit) IN IF c0 < 0 THEN limit ELSE c0

\* cut = s.rfind("\n", 0, limit); if cut <= 0: cut = limit
cut_at(s, limit) ==
  LET c0 == rfind(s, limit) IN IF c0 <= 0 THEN limit ELSE c0

RECURSIVE chunk_text(_, _)
chunk_text(s, limit) ==
  IF s = <<>> THEN <<>>
  ELSE IF Len(s) <= limit THEN <<s>>
  ELSE LET cut == cut_at(s, limit)
       IN <<SubSeq(s, 1, cut)>> \o chunk_text(lstrip(SubSeq(s, cut + 1, Len(s))), limit)

\* chunk_text run statement by statement: text and limit are its arguments,
\* s and chunks its locals, pc is "loop" at the test of the while, "done"
\* after the return
NoChunking == [text |-> <<>>, limit |-> 0, s |-> <<>>, chunks |-> <<>>, pc |-> "none"]

Alphabet == {NL, SP, Ch("a", 0), Ch("b", 0)}
Texts == UNION { [1..n -> Alphabet] : n \in 0..MaxLen }
Limits == 1..MaxLimit

\* ----------------------------------------------------------- processes
Terminal == {"done", "raised", "crashed"}

\* locals of one invocation; phase is the source collect has reached;
\* calls, acc, csv, marked, suppressed, snap and undone record what the invocation did (requests made, transports that
\* accepted, export written, commit executed, table as the SELECT saw it,
\* updates a crash rolled back)
L0 == [mode |-> "none", lookback |-> 0, since |-> 0, min_count |-> 0,
       bot |-> FALSE, webhook |-> FALSE,
       phase |-> "none", items |-> <<>>, found |-> FALSE,
       rows |-> <<>>, posted |-> FALSE, frag |-> 0, tx |-> {},
       calls |-> {}, acc |-> {}, csv |-> FALSE, marked |-> FALSE,
       suppressed |-> FALSE, snap |-> <<>>, undone |-> {}]

\* lookback_override_min or DIGEST_LOOKBACK_MIN, per mode of __main__
Lookback(m) ==
  LET override == CASE m = "test_digest" -> TEST_LOOKBACK_MIN
                    [] m = "bootstrap" -> Max(1, BOOTSTRAP_DAYS * 1440)
                    [] OTHER -> 0
  IN IF override # 0 THEN override ELSE DIGEST_LOOKBACK_MIN

FirstPc(m) ==
  CASE m = "digest" -> "select"
    [] m = "test_digest" -> "check"
    [] OTHER -> "langs"

Item(id, created_at) == [id |-> id, title |-> "a", created_at |-> created_at]

\* what github_search may return (items of the JSON response)
GhResults ==
  { <<>>, <<Item(1, NoId)>>, <<Item(1, NoId), Item(NoId, NoId), Item(2, NoId)>> }

\* what algora_list may return; it stamps created_at with the time of listing
AlResults(t) == { <<>>, <<Item(1, t)>> }

SourceOf(phase) ==
  CASE phase = "github" -> "github" [] phase = "algora" -> "algora" [] OTHER -> "test"

KeyOf(phase, it) ==
  CASE phase = "github" -> Key("gh", it.id)
    [] phase = "algora" -> Key("algora", it.id)
    [] OTHER -> Key("dummy", it.id)

AfterPhase(m, phase) ==
  CASE phase = "github" -> "algora"
    [] phase = "algora" -> IF m = "bootstrap" THEN "select" ELSE "done"
    [] OTHER -> "select"

\* the last direct call of upsert_pending and what it returned
NoCall == [source |-> "none", key |-> Key("none", NoId), ret |-> FALSE]

Dummies(tbl) == { i \in 1..Len(tbl) : tbl[i].source = "test" }

Init ==
  /\ pending = <<>>
  /\ now = 60
  /\ wlock = NoProc
  /\ pc = [p \in Procs |-> "idle"]
  /\ loc = [p \in Procs |-> L0]
  /\ ret = NoCall
  /\ ck = NoChunking

\* python collector.py with MODE=m: the branch of __main__ that is taken;
\* a new invocation is the lowest process that is not running
Begin(p, m) ==
  /\ pc[p] = "idle"
  /\ \A q \in Procs : q < p => pc[q] # "idle"
  /\ m = "test_digest" => Cardinality(Dummies(pending)) < MaxDummy
  /\ pc' = [pc EXCEPT ![p] = FirstPc(m)]
  /\ loc' = [loc EXCEPT ![p] =
       [L0 EXCEPT !.mode = m, !.lookback = Lookback(m),
                  !.phase = IF m = "test_digest" THEN "dummy" ELSE "none",
                  !.items = IF m = "test_digest" THEN <<Item(now, now)>> ELSE <<>>]]
  /\ UNCHANGED <<pending, now, wlock, ret, ck>>

\* the scheduler starts an invocation when no other one is running
Start(p) ==
  /\ \A q \in Procs : pc[q] = "idle"
  /\ \E m \in Modes : Begin(p, m)

\* an invocation starts whatever the other one is doing
StartOverlap(p) == \E m \in {"collect", "digest"} : Begin(p, m)

Exit(p) ==
  /\ pc[p] \in Terminal
  /\ pc' = [pc EXCEPT ![p] = "idle"]
  /\ loc' = [loc EXCEPT ![p] = L0]
  /\ UNCHANGED <<pending, now, wlock, ret, ck>>

\* the process dies (kill, power loss): its open transaction is rolled back
\* by the next connection that opens the database
Crash(p) ==
  /\ pc[p] \notin Terminal \cup {"idle"}
  /\ pc' = [pc EXCEPT ![p] = "crashed"]
  /\ loc' = [loc EXCEPT ![p] = [L0 EXCEPT !.mode = loc[p].mode, !.rows = loc[p].rows,
                                         !.undone = loc[p].tx]]
  /\ wlock' = IF wlock = p THEN NoProc ELSE wlock
  /\ UNCHANGED <<pending, now, ret, ck>>

Tick ==
  /\ now < 60 * (MaxTicks + 1)
  /\ now' = now + 60
  /\ UNCHANGED <<pending, wlock, pc, loc, ret, ck>>

\* ------------------------------------------------------------- collect
\* conn = db(); languages = ensure_languages(conn)
Languages(p) ==
  /\ pc[p] = "langs"
  /\ \E out \in {"ok", "raise"} :
       pc' = [pc EXCEPT ![p] =
                IF out = "raise" THEN "raised"
                ELSE IF loc[p].mode = "langs" THEN "done" ELSE "github"]
  /\ UNCHANGED <<pending, now, wlock, loc, ret, ck>>

\* github_search(...): an HTTPError is caught by collect, any other
\* exception (connection error, timeout, malformed JSON) is not
GithubSearch(p) ==
  /\ pc[p] = "github"
  /\ \/ \E out \in {"http_error", "raise"} :
          /\ pc' = [pc EXCEPT ![p] = IF out = "raise" THEN "raised" ELSE "algora"]
          /\ loc' = [loc EXCEPT ![p].phase = "github"]
     \/ \E its \in GhResults :
          /\ pc' = [pc EXCEPT ![p] = IF its = <<>> THEN "algora" ELSE "check"]
          /\ loc' = [loc EXCEPT ![p].phase = "github", ![p].items = its]
  /\ UNCHANGED <<pending, now, wlock, ret, ck>>

\* algora_list(): every exception is caught by collect
AlgoraList(p) ==
  /\ pc[p] = "algora"
  /\ \/ /\ pc' = [pc EXCEPT ![p] = AfterPhase(loc[p].mode, "algora")]
        /\ loc' = [loc EXCEPT ![p].phase = "algora"]
     \/ \E its \in AlResults(now) :
          /\ pc' = [pc EXCEPT ![p] = IF its = <<>> THEN AfterPhase(loc[p].mode, "algora")
                                     ELSE "check"]
          /\ loc' = [loc EXCEPT ![p].phase = "algora", ![p].items = its]
  /\ UNCHANGED <<pending, now, wlock, ret, ck>>

\* upsert_pending, first statement: the SELECT.  f"gh:{it['id']}" raises
\* KeyError for a GitHub item without id before the call is made.
UpsertCheck(p) ==
  /\ pc[p] = "check"
  /\ LET it == Head(loc[p].items)
         ph == loc[p].phase
     IN IF ph = "github" /\ it.id = NoId
          THEN /\ pc' = [pc EXCEPT ![p] = "raised"]
               /\ UNCHANGED loc
          ELSE /\ pc' = [pc EXCEPT ![p] = "insert"]
               /\ loc' = [loc EXCEPT ![p].found = RowExists(pending, SourceOf(ph), KeyOf(ph, it))]
  /\ UNCHANGED <<pending, now, wlock, ret, ck>>

\* upsert_pending, rest: return False, or INSERT and commit
UpsertInsert(p) ==
  /\ pc[p] = "insert"
  /\ wlock = NoProc
  /\ LET it == Head(loc[p].items)
         ph == loc[p].phase
         rest == Tail(loc[p].items)
     IN /\ pending' = IF loc[p].found THEN pending
                      ELSE InsertRow(pending, SourceOf(ph), KeyOf(ph, it),
                                     it.title, it.created_at, now)
        /\ loc' = [loc EXCEPT ![p].items = rest, ![p].found = FALSE]
        /\ pc' = [pc EXCEPT ![p] = IF rest = <<>> THEN AfterPhase(loc[p].mode, ph) ELSE "check"]
  /\ UNCHANGED <<now, wlock, ret, ck>>

\* -------------------------------------------------------------- digest
Details(p) == make_digest_text(loc[p].rows).details
Text(p) == make_digest_text(loc[p].rows).text
Chunks(p) == chunk_text(Details(p), MAX_SLACK_CHARS)

\* "(cont.)\n"
cont_prefix ==
  <<Ch("(", 0), Ch("c", 0), Ch("o", 0), Ch("n", 0), Ch("t", 0), Ch(".", 0), Ch(")", 0), NL>>

\* prefix + chunk, the text post_slack_thread gets for fragment number k
ThreadTextAt(p, k) ==
  (IF k = 1 THEN <<>> ELSE cont_prefix) \o Chunks(p)[k]

\* the text of the fragment the loop is at
ThreadText(p) == ThreadTextAt(p, loc[p].frag)

\* text if not thread_details else f"{text}\n\n{thread_details}"
WebhookText(p) ==
  IF Details(p) = <<>> THEN Text(p) ELSE Text(p) \o <<NL, NL>> \o Details(p)

\* the texts the transport calls of the invocation were given so far
Handed(p) ==
  (IF "bot" \in loc[p].calls THEN {Text(p)} ELSE {})
  \cup { ThreadTextAt(p, k) : k \in 1..(loc[p].frag - 1) }
  \cup (IF "webhook" \in loc[p].calls THEN {WebhookText(p)} ELSE {})

\* only an empty selection is suppressed
TooFew_Empty(rs, min_count) == Len(rs) = 0

\* if len(rows_raw) < DIGEST_MIN_COUNT
TooFew(rs, min_count) == Len(rs) < min_count

\* conn = db(); the SELECT; "nothing to send" below DIGEST_MIN_COUNT
DigestSelect(p) ==
  /\ pc[p] = "select"
  /\ \E min_count \in MinCounts :
       LET since == Since(now, loc[p].lookback)
           rs == SelectPending(pending, since, MAX_ITEMS_IN_DIGEST)
       IN IF TooFew(rs, min_count)
            THEN /\ pc' = [pc EXCEPT ![p] = "done"]
                 /\ loc' = [loc EXCEPT ![p].since = since, ![p].snap = pending,
                                       ![p].min_count = min_count,
                                       ![p].suppressed = TRUE]
            ELSE /\ pc' = [pc EXCEPT ![p] = "primary"]
                 /\ loc' = [loc EXCEPT ![p].since = since, ![p].snap = pending,
                                       ![p].min_count = min_count,
                                       ![p].rows = rs]
  /\ UNCHANGED <<pending, now, wlock, ret, ck>>

\* res = post_slack_bot(text) and the bookkeeping of lines 387-392
DigestPrimary(p) ==
  /\ pc[p] = "primary"
  /\ \/ /\ pc' = [pc EXCEPT ![p] = "fallback"]          \* no SLACK_BOT_TOKEN
        /\ loc' = [loc EXCEPT ![p].bot = FALSE, ![p].webhook = TRUE]
     \/ \E out \in {"ok_ts", "ok", "fail", "raise"}, thread \in BOOLEAN, webhook \in BOOLEAN :
          LET ok == out \in {"ok_ts", "ok"}
              long == out = "ok_ts" /\ Details(p) # <<>>
              threaded == long /\ thread
          IN /\ thread = FALSE \/ long   \* POST_LONG_AS_THREAD is read only then
             \* an exception ends the invocation before SLACK_WEBHOOK_URL
             \* is read: the value it has is recorded with the exception
             /\ webhook = FALSE \/ out = "raise"
             /\ pc' = [pc EXCEPT ![p] =
                        IF out = "raise" THEN "raised"
                        ELSE IF threaded THEN "thread" ELSE "fallback"]
             /\ loc' = [loc EXCEPT
                  ![p].bot = TRUE,
                  ![p].webhook = webhook,
                  ![p].calls = @ \cup {"bot"},
                  ![p].posted = ok,
                  ![p].acc = IF ok THEN @ \cup {"bot"} ELSE @,
                  ![p].frag = IF threaded THEN 1 ELSE 0]
  /\ UNCHANGED <<pending, now, wlock, ret, ck>>

\* one pass of the loop of lines 393-395: post_slack_thread(thread_ts, chunk)
DigestThread(p) ==
  /\ pc[p] = "thread"
  /\ \E out \in {"returned", "raise"} :
       /\ pc' = [pc EXCEPT ![p] =
                  IF out = "raise" THEN "raised"
                  ELSE IF loc[p].frag >= Len(Chunks(p)) THEN "fallback" ELSE "thread"]
       /\ loc' = [loc EXCEPT ![p].calls = @ \cup {"thread"},
                             ![p].frag = IF out = "raise" THEN @ ELSE @ + 1]
  /\ UNCHANGED <<pending, now, wlock, ret, ck>>

\* lines 398-400: the webhook fallback
DigestFallback(p) ==
  /\ pc[p] = "fallback"
  /\ IF loc[p].posted
       THEN /\ pc' = [pc EXCEPT ![p] = "csv"]
            /\ UNCHANGED loc
       ELSE \/ /\ loc[p].bot                          \* no SLACK_WEBHOOK_URL
               /\ pc' = [pc EXCEPT ![p] = "csv"]
               /\ loc' = [loc EXCEPT ![p].webhook = FALSE]
            \/ \E out \in {"ok", "fail", "raise"} :
                 /\ pc' = [pc EXCEPT ![p] = IF out = "raise" THEN "raised" ELSE "csv"]
                 /\ loc' = [loc EXCEPT
                      ![p].webhook = TRUE,
                      ![p].calls = @ \cup {"webhook"},
                      ![p].posted = (out = "ok"),
                      ![p].acc = IF out = "ok" THEN @ \cup {"webhook"} ELSE @]
  /\ UNCHANGED <<pending, now, wlock, ret, ck>>

\* the UPDATE run whether or not a transport accepted
AfterExport_Always(p) == "update"

\* lines 408-414 once the export block is over: UPDATE, or the error log
AfterExport(p) == IF loc[p].posted THEN "update" ELSE "done"

\* lines 403-405: write_csv when WRITE_CSV, then the decision to upload
DigestCsv(p) ==
  /\ pc[p] = "csv"
  /\ \/ /\ pc' = [pc EXCEPT ![p] = AfterExport(p)]     \* WRITE_CSV is false
        /\ UNCHANGED loc
     \/ \E out \in {"written", "raise"}, upload \in BOOLEAN :
          /\ upload = FALSE \/ (out = "written" /\ loc[p].posted)
          /\ pc' = [pc EXCEPT ![p] =
                     IF out = "raise" THEN "raised"
                     ELSE IF loc[p].posted /\ upload THEN "upload"
                     ELSE AfterExport(p)]
          /\ loc' = [loc EXCEPT ![p].csv = (out = "written")]
  /\ UNCHANGED <<pending, now, wlock, ret, ck>>

\* upload_file_to_slack(path, ...): "upload_disabled" without a bot token
DigestUpload(p) ==
  /\ pc[p] = "upload"
  /\ IF ~loc[p].bot
       THEN /\ pc' = [pc EXCEPT ![p] = AfterExport(p)]
            /\ UNCHANGED loc
       ELSE \E out \in {"returned", "raise"} :
              /\ pc' = [pc EXCEPT ![p] = IF out = "raise" THEN "raised" ELSE AfterExport(p)]
              /\ loc' = [loc EXCEPT ![p].calls = @ \cup {"upload"}]
  /\ UNCHANGED <<pending, now, wlock, ret, ck>>

\* the next id executemany has not yet updated, in the order of rows
NextId(p) ==
  LET rs == loc[p].rows
      k == CHOOSE i \in 1..Len(rs) :
             /\ rs[i].id \notin loc[p].tx
             /\ \A j \in 1..(i - 1) : rs[j].id \in loc[p].tx
  IN rs[k].id

\* every UPDATE committed on its own (a connection in autocommit mode)
DigestUpdate_Autocommit(p) ==
  /\ pc[p] = "update"
  /\ wlock \in {NoProc, p}
  /\ LET tx2 == loc[p].tx \cup {NextId(p)}
     IN /\ pending' = MarkNotified(pending, {NextId(p)})
        /\ loc' = [loc EXCEPT ![p].tx = tx2]
        /\ pc' = [pc EXCEPT ![p] = IF tx2 = Ids(loc[p].rows) THEN "commit" ELSE "update"]
  /\ UNCHANGED <<now, wlock, ret, ck>>

\* one UPDATE of conn.executemany: it runs inside the connection's open
\* transaction, which holds the database's write lock until the commit
DigestUpdate(p) ==
  /\ pc[p] = "update"
  /\ wlock \in {NoProc, p}
  /\ wlock' = p
  /\ LET tx2 == loc[p].tx \cup {NextId(p)}
     IN /\ loc' = [loc EXCEPT ![p].tx = tx2]
        /\ pc' = [pc EXCEPT ![p] = IF tx2 = Ids(loc[p].rows) THEN "commit" ELSE "update"]
  /\ UNCHANGED <<pending, now, ret, ck>>

\* conn.commit(): the updates of the transaction become visible at once
DigestCommit(p) ==
  /\ pc[p] = "commit"
  /\ pending' = MarkNotified(pending, loc[p].tx)
  /\ wlock' = NoProc
  /\ loc' = [loc EXCEPT ![p].tx = {}, ![p].marked = TRUE]
  /\ pc' = [pc EXCEPT ![p] = "done"]
  /\ UNCHANGED <<now, ret, ck>>

\* a writer that finds the database locked by another connection gives up
\* after the busy timeout: sqlite3.OperationalError
Busy(p) ==
  /\ pc[p] \in {"insert", "update"}
  /\ wlock \notin {NoProc, p}
  /\ pc' = [pc EXCEPT ![p] =
             IF pc[p] = "insert" /\ loc[p].phase = "algora"
               THEN AfterPhase(loc[p].mode, "algora") ELSE "raised"]
  /\ loc' = [loc EXCEPT ![p].tx = {}]
  /\ UNCHANGED <<pending, now, wlock, ret, ck>>

\* ------------------------------------------------------- specifications
CollectStep(p) ==
  \/ Languages(p) \/ GithubSearch(p) \/ AlgoraList(p)
  \/ UpsertCheck(p) \/ UpsertInsert(p)

DigestStep(p) ==
  \/ DigestSelect(p) \/ DigestPrimary(p) \/ DigestThread(p) \/ DigestFallback(p)
  \/ DigestCsv(p) \/ DigestUpload(p) \/ DigestUpdate(p) \/ DigestCommit(p)

Step(p) == Exit(p) \/ CollectStep(p) \/ DigestStep(p)

Next == Tick \/ \E p \in Procs : Start(p) \/ Crash(p) \/ Step(p)

Spec == Init /\ [][Next]_vars

NextConc == \E p \in Procs : StartOverlap(p) \/ Busy(p) \/ Step(p)

SpecConc == Init /\ [][NextConc]_vars

\* upsert_pending called directly, one call after the other, with any
\* arguments (the same key may come under either source)
CallSources == {"github", "algora"}
CallKeys == {Key("gh", 1), Key("algora", 1)}
CallAttrs == {[title |-> "a", created_at |-> NoId], [title |-> "b", created_at |-> 120]}

UpsertCall ==
  /\ \A q \in Procs : pc[q] = "idle"
  /\ \E source \in CallSources, key \in CallKeys, a \in CallAttrs :
       LET r == upsert_pending(pending, source, key, a.title, a.created_at, now)
       IN /\ pending' = r.tbl
          /\ ret' = [source |-> source, key |-> key, ret |-> r.ret]
  /\ UNCHANGED <<now, wlock, pc, loc, ck>>

StartDigest(p) ==
  /\ \A q \in Procs : pc[q] = "idle"
  /\ Begin(p, "digest")

NextUpsert == UpsertCall \/ \E p \in Procs : StartDigest(p) \/ Exit(p) \/ DigestStep(p)

SpecUpsert == Init /\ [][NextUpsert]_vars

\* chunk_text(text, limit) called on its own, with any text and limit
InitChunk ==
  /\ pending = <<>>
  /\ now = 60
  /\ wlock = NoProc
  /\ pc = [p \in Procs |-> "idle"]
  /\ loc = [p \in Procs |-> L0]
  /\ ret = NoCall
  /\ \E t \in Texts, b \in Limits :
       ck = [text |-> t, limit |-> b, s |-> t, chunks |-> <<>>, pc |-> "loop"]

\* one pass of `while s:`: the last chunk and break, or a cut
ChunkLoop ==
  /\ ck.pc = "loop"
  /\ ck.s # <<>>
  /\ IF Len(ck.s) <= ck.limit
       THEN ck' = [ck EXCEPT !.chunks = Append(@, ck.s), !.pc = "done"]
       ELSE LET cut == cut_at(ck.s, ck.limit)
            IN ck' = [ck EXCEPT !.chunks = Append(@, SubSeq(ck.s, 1, cut)),
                                !.s = lstrip(SubSeq(ck.s, cut + 1, Len(ck.s)))]
  /\ UNCHANGED <<pending, now, wlock, pc, loc, ret>>

\* `while s:` is false: return chunks
ChunkReturn ==
  /\ ck.pc = "loop"
  /\ ck.s = <<>>
  /\ ck' = [ck EXCEPT !.pc = "done"]
  /\ UNCHANGED <<pending, now, wlock, pc, loc, ret>>

NextChunk == ChunkLoop \/ ChunkReturn

SpecChunk == InitChunk /\ [][NextChunk]_vars

\* --------------------------------------------------------------- claims
\* a digest cycle that got past the suppression threshold
Sending(p) == loc[p].rows # <<>>
Accepted(p) == loc[p].acc # {}
Failed(p) == pc[p] = "done" /\ Sending(p) /\ ~Accepted(p)
Running(p) == pc[p] \notin Terminal \cup {"idle"}

\* C1: the selected records are marked notified exactly when a transport
\* accepted: no UPDATE runs before an acceptance, and a cycle in which a
\* send was accepted ends with the UPDATE committed, whatever the steps in
\* between (thread posts, CSV write, CSV upload) do.
C1_MarkedIffAccepted ==
  \A p \in Procs :
    /\ (loc[p].tx # {} \/ loc[p].marked) => Accepted(p)
    /\ (pc[p] \in {"done", "raised"} /\ Accepted(p)) => loc[p].marked

\* C2: a cycle that ends FAILED leaves the pending table as it found it:
\* the selected rows are still notified=0, and a SELECT of a following cycle
\* whose window covers them returns them again.
FollowTimes == { 60 * k : k \in 1..(MaxTicks + 1) }
Lookbacks == { Lookback(m) : m \in Modes }

C3_InsertIfAbsent ==
  [][(\A q \in Procs : pc[q] = "idle" /\ pc'[q] = "idle") =>
        LET present == \E i \in 1..Len(pending) :
                          pending[i].source = ret'.source /\ pending[i].key = ret'.key
        IN IF present
             THEN ret'.ret = FALSE /\ pending' = pending
             ELSE /\ ret'.ret = TRUE
                  /\ Len(pending') = Len(pending) + 1
                  /\ SubSeq(pending', 1, Len(pending)) = pending
                  /\ pending'[Len(pending')].source = ret'.source
                  /\ pending'[Len(pending')].key = ret'.key
                  /\ pending'[Len(pending')].notified = 0]_<<pending, ret>>

C3_Witness ==
  /\ ret.ret = FALSE
  /\ \E i, j \in 1..Len(pending) :
       /\ pending[i].key = pending[j].key /\ pending[i].source # pending[j].source
       /\ pending[i].source = ret.source /\ pending[i].key = ret.key
       /\ pending[i].notified = 1 /\ pending[i].title = "b"

\* C4: the store never holds two rows with the same (source, key) pair,
\* also when two ingestion runs interleave the check and the insert.
C4_UniqueSourceKey ==
  \A i, j \in 1..Len(pending) :
    (pending[i].source = pending[j].source /\ pending[i].key = pending[j].key) => i = j

\* C5: notified never goes back from 1 to 0, only the commit step of digest
\* changes notified of an existing row, and a SELECT of digest never
\* returns a row whose notified is 1.
C5_NotifiedMonotonic ==
  [][/\ Len(pending') >= Len(pending)
     /\ \A i \in 1..Len(pending) :
          /\ pending[i].notified = 1 => pending'[i].notified = 1
          /\ pending'[i].notified # pending[i].notified =>
               \E p \in Procs : /\ pc[p] = "commit" /\ pc'[p] = "done"
                                /\ Accepted(p) /\ pending[i].id \in Ids(loc[p].rows)
     /\ \A p \in Procs :
          (pc[p] = "select" /\ pc'[p] = "primary") =>
             \A k \in 1..Len(loc'[p].rows) : pending[loc'[p].rows[k].id].notified = 0]_vars

C5_Witness ==
  \E p \in Procs :
    /\ pc[p] = "primary"
    /\ \E i \in 1..Len(pending) :
         /\ pending[i].notified = 1 /\ pending[i].created_at >= loc[p].since
         /\ pending[i].id \notin Ids(loc[p].rows)

\* C6: when two digest runs overlap, no record is in two digests that were
\* both accepted by a transport.
C6_NoDuplicateNotification ==
  \A p, q \in Procs :
    (p # q /\ Running(p) /\ Running(q) /\ Accepted(p) /\ Accepted(q))
      => Ids(loc[p].rows) \cap Ids(loc[q].rows) = {}

\* C7: when fewer rows than DIGEST_MIN_COUNT are selected the cycle ends
\* with no side effect: no request to any transport, no export file, no
\* change of the pending table.
C7_Suppressed ==
  \A p \in Procs :
    (loc[p].min_count # 0 /\
     Cardinality({ i \in 1..Len(loc[p].snap) :
                     loc[p].snap[i].created_at >= loc[p].since
                       /\ loc[p].snap[i].notified = 0 }) < loc[p].min_count)
      => /\ pc[p] = "done"
         /\ loc[p].calls = {} /\ ~loc[p].csv /\ ~loc[p].marked /\ loc[p].tx = {}
         /\ pending = loc[p].snap

C7_Witness ==
  \E p \in Procs :
    /\ loc[p].suppressed /\ loc[p].min_count = 2
    /\ \E i \in 1..Len(pending) :
         pending[i].created_at >= loc[p].since /\ pending[i].notified = 0

\* C8: the rows a cycle selects are the rows with created_at >= now -
\* lookback*60 and notified = 0, in descending created_at, cut to the first
\* MAX_ITEMS_IN_DIGEST of that order; selecting leaves the store unchanged.
C8_Selection ==
  [][\A p \in Procs :
       (pc[p] = "select" /\ pc'[p] = "primary") =>
         LET rs == loc'[p].rows
             since == now - loc[p].lookback * 60
             E == { i \in 1..Len(pending) :
                      pending[i].created_at >= since /\ pending[i].notified = 0 }
         IN /\ pending' = pending
            /\ Len(rs) = Min(MAX_ITEMS_IN_DIGEST, Cardinality(E))
            /\ \A k \in 1..Len(rs) : rs[k].id \in E /\ rs[k] = pending[rs[k].id]
            /\ \A k, l \in 1..Len(rs) :
                 k < l => rs[k].id # rs[l].id /\ rs[k].created_at >= rs[l].created_at
            /\ \A i \in E : i \notin Ids(rs) =>
                 \A k \in 1..Len(rs) : pending[i].created_at <= rs[k].created_at]_vars

C8_Witness ==
  \E p \in Procs :
    /\ pc[p] = "primary" /\ Len(loc[p].rows) = MAX_ITEMS_IN_DIGEST
    /\ loc[p].rows[1].created_at > loc[p].rows[2].created_at
    /\ \E i \in 1..Len(loc[p].snap) :
         /\ loc[p].snap[i].notified = 0 /\ loc[p].snap[i].created_at >= loc[p].since
         /\ i \notin Ids(loc[p].rows)

\* C9: the commit sets notified=1 for the ids of the selected rows and for
\* no other row, and whenever an invocation has ended (returned, raised or
\* crashed) either all of its selected rows or none of them are notified.
C9_CommitAllOrNothing ==
  [][\A p \in Procs :
       /\ (pc[p] = "commit" /\ pc'[p] = "done") =>
            pending' = [i \in 1..Len(pending) |->
                          IF pending[i].id \in Ids(loc[p].rows)
                            THEN [pending[i] EXCEPT !.notified = 1] ELSE pending[i]]
       /\ pc'[p] \in Terminal =>
            Cardinality({ pending'[loc'[p].rows[k].id].notified :
                            k \in 1..Len(loc'[p].rows) }) <= 1]_vars

C9_Witness ==
  \E p \in Procs :
    /\ pc[p] = "crashed" /\ loc[p].undone # {} /\ loc[p].undone # Ids(loc[p].rows)
    /\ \A k \in 1..Len(loc[p].rows) : pending[loc[p].rows[k].id].notified = 0

\* C10: the webhook is attempted exactly when the primary transport did not
\* accept (failure, timeout, transport error or no bot token) and a webhook
\* URL is configured, never after the primary accepted, and the cycle ends
\* in SENT or FAILED.
C10_FallbackStateMachine ==
  \A p \in Procs :
    (pc[p] \in {"done", "raised"} /\ Sending(p)) =>
      /\ ("webhook" \in loc[p].calls) <=> ("bot" \notin loc[p].acc /\ loc[p].webhook)
      /\ pc[p] = "done"

\* C11: a failure of one source adapter is caught inside collect: when
\* github_search fails (HTTP error, network error, malformed response) the
\* invocation does not end with an exception, it goes on to query Algora.
C11_SourceFailureIsolated ==
  \A p \in Procs :
    (loc[p].phase = "github" /\ loc[p].items = <<>>) => pc[p] # "raised"

\* C12: chunk_text terminates for every text and every limit >= 1 (each
\* pass of the loop returns or leaves a strictly shorter s), every fragment
\* is non-empty and at most limit characters long, and what the loop
\* returns is chunk_text(text, limit).
FragmentsOk(c) ==
  \A i \in 1..Len(c.chunks) : c.chunks[i] # <<>> /\ Len(c.chunks[i]) <= c.limit

C12_ChunkTerminates ==
  [][ck.pc = "loop" =>
       /\ ck'.pc = "done" \/ (ck'.pc = "loop" /\ Len(ck'.s) < Len(ck.s))
       /\ FragmentsOk(ck')
       /\ ck'.pc = "done" => ck'.chunks = chunk_text(ck.text, ck.limit)]_vars

C12_Witness ==
  /\ ck.pc = "done" /\ Len(ck.text) = MaxLen /\ Len(ck.chunks) >= 3
  /\ \E i, j \in 1..Len(ck.chunks) : Len(ck.chunks[i]) = ck.limit /\ Len(ck.chunks[j]) < ck.limit

RECURSIVE Flatten(_)
Flatten(ss) == IF ss = <<>> THEN <<>> ELSE Head(ss) \o Flatten(Tail(ss))

NonSpace(s) == SelectSeq(s, LAMBDA ch : ~IsSpace(ch))

AllSpace(s) == \A i \in 1..Len(s) : IsSpace(s[i])

\* C13 as stated: the fragments in order hold the non-whitespace characters
\* of the text in the same order, none lost, duplicated or reordered, and a
\* text no longer than the limit comes back as the single fragment, verbatim.
C13_RoundTrip ==
  ck.pc = "done" =>
    /\ NonSpace(Flatten(ck.chunks)) = NonSpace(ck.text)
    /\ Len(ck.text) <= ck.limit => ck.chunks = <<ck.text>>

\* C13, amended: every pass of the loop splits s into the fragment it
\* appends, a run of whitespace it drops, and the s it leaves, so the
\* fragments in order hold the non-whitespace characters of the text; a
\* non-empty text no longer than the limit comes back as the single
\* fragment, verbatim, and the empty text gives no fragment at all.
C13_RoundTripNonEmpty ==
  [][/\ ck.pc = "loop" /\ ck.s = <<>> => ck'.chunks = ck.chunks /\ ck'.pc = "done"
     /\ ck.pc = "loop" /\ ck.s # <<>> =>
       LET last == ck'.chunks[Len(ck'.chunks)]
           rest == IF ck'.pc = "done" THEN <<>> ELSE ck'.s
       IN /\ Len(ck'.chunks) = Len(ck.chunks) + 1
          /\ \E k \in 0..Len(ck.s) :
               /\ Len(last) + k + Len(rest) = Len(ck.s)
               /\ last = SubSeq(ck.s, 1, Len(last))
               /\ AllSpace(SubSeq(ck.s, Len(last) + 1, Len(last) + k))
               /\ rest = SubSeq(ck.s, Len(last) + k + 1, Len(ck.s))
          /\ ck'.pc = "done" =>
               /\ NonSpace(Flatten(ck'.chunks)) = NonSpace(ck.text)
               /\ Len(ck.text) <= ck.limit => ck'.chunks = <<ck.text>>]_vars

C13_Witness ==
  /\ ck.pc = "done" /\ Len(ck.chunks) >= 2
  /\ Len(Flatten(ck.chunks)) < Len(ck.text)
  /\ Len(NonSpace(ck.text)) >= 3

Greatest(S) == CHOOSE j \in S : \A k \in S : k <= j

\* 0-based indices lo..hi of s that hold a newline
NewlinesIn(s, lo, hi) == { j \in lo..hi : j < Len(s) /\ s[j + 1] = NL }

\* the remainder after a cut at index cut, left-trimmed
Trimmed(s, cut, rest) ==
  \E k \in 0..(Len(s) - cut) :
    /\ AllSpace(SubSeq(s, cut + 1, cut + k))
    /\ rest = SubSeq(s, cut + k + 1, Len(s))
    /\ rest = <<>> \/ ~IsSpace(rest[1])

\* C18 as stated: for s longer than the limit the fragment is the prefix
\* that ends just before the last newline at an index 0..limit (the whole
\* first limit characters when s[limit] is a newline), the first limit
\* characters when there is no newline there; the next s is the
\* left-trimmed remainder.
C18_CutAtOrBeforeLimit ==
  [][ck.pc = "loop" /\ Len(ck.s) > ck.limit =>
       LET N == NewlinesIn(ck.s, 0, ck.limit)
           cut == IF N = {} THEN ck.limit ELSE Greatest(N)
       IN /\ ck'.chunks = Append(ck.chunks, SubSeq(ck.s, 1, cut))
          /\ Trimmed(ck.s, cut, ck'.s)]_vars

\* C18, amended: the newline is looked for at the indices 1..limit-1 only:
\* a newline at index limit is not seen (the fragment then ends before an
\* earlier newline if there is one) and a newline at index 0 does not count.
C18_CutBeforeLimit ==
  [][ck.pc = "loop" /\ Len(ck.s) > ck.limit =>
       LET N == NewlinesIn(ck.s, 1, ck.limit - 1)
           cut == IF N = {} THEN ck.limit ELSE Greatest(N)
       IN /\ ck'.chunks = Append(ck.chunks, SubSeq(ck.s, 1, cut))
          /\ Trimmed(ck.s, cut, ck'.s)]_vars

\* a text whose character at the limit is a newline, with an earlier newline
C18_Witness ==
  /\ ck.pc = "loop" /\ ck.chunks # <<>> /\ Len(ck.text) > ck.limit
  /\ ck.text[ck.limit + 1] = NL
  /\ NewlinesIn(ck.text, 1, ck.limit - 1) # {}
  /\ Len(ck.chunks[1]) < ck.limit

\* C14: the text given to post_slack_bot and every text given to
\* post_slack_thread is at most MAX_SLACK_CHARS characters long.
C14_MessageSize ==
  \A p \in Procs :
    /\ pc[p] = "primary" => Len(Text(p)) <= MAX_SLACK_CHARS
    /\ pc[p] = "thread" => Len(ThreadText(p)) <= MAX_SLACK_CHARS

\* C15: write_csv is executed only in a cycle in which a transport has
\* accepted the digest; a cycle that ends FAILED has written no export.
C15_ExportOnlyWhenSent ==
  \A p \in Procs : loc[p].csv => Accepted(p)

\* C16: once the thread replies have begun (the primary accepted, there is
\* an overflow and a thread handle), every fragment is posted whatever
\* happens to the post of an earlier one, and a cycle that returns has
\* marked the selected rows.
C16_ThreadBestEffort ==
  \A p \in Procs :
    (pc[p] \in {"done", "raised"} /\ loc[p].frag >= 1) =>
      /\ loc[p].frag = Len(Chunks(p)) + 1
      /\ pc[p] = "done" => loc[p].marked

\* C17: a candidate without an id is skipped: collect does not end with an
\* exception at that candidate, and no row is stored under a missing id.
C17_MissingIdSkipped ==
  /\ \A p \in Procs :
       (loc[p].items # <<>> /\ Head(loc[p].items).id = NoId) => pc[p] # "raised"
  /\ \A i \in 1..Len(pending) : pending[i].key.n # NoId

\* C19: upload_file_to_slack is called only in a cycle whose primary
\* transport accepted the digest.
C19_UploadOnlyAfterPrimary ==
  \A p \in Procs : pc[p] = "upload" => "bot" \in loc[p].acc

\* C20: in no mode does an invocation end with an exception that the
\* top level has not caught.
C20_NoUncaughtError ==
  \A p \in Procs : pc[p] # "raised"

\* the characters of a text
Chars(t) == { t[j] : j \in 1..Len(t) }

\* C21: when a cycle has marked its selected rows, the bullet of each of
\* them was handed to a transport: every character of the bullet other
\* than whitespace is in a text that post_slack_bot, post_slack_thread or
\* post_slack_webhook was given in that cycle.
C21_MarkedWasHanded ==
  \A p \in Procs :
    loc[p].marked =>
      \A k \in 1..Len(loc[p].rows) :
        \A ch \in Chars(bullet(loc[p].rows[k])) :
          ~IsSpace(ch) => \E t \in Handed(p) : ch \in Chars(t)

====
